---- MODULE Spec2Model ----
(***************************************************************************)
(* gometalinter (src/main.go): main launches one goroutine per enabled     *)
(* linter, gates them with the buffered channel `concurrency`, collects    *)
(* the Issues they extract in the buffered channel `issues`, waits for     *)
(* them with a sync.WaitGroup, closes `issues` and prints what it holds.   *)
(*                                                                         *)
(* Strings are sequences of one-character strings, so that splitting,      *)
(* matching, integer parsing and rendering are computed, not assumed.      *)
(* The model covers lint runs (no --install, which returns before any      *)
(* linter is started).                                                     *)
(***************************************************************************)
EXTENDS Integers, Sequences, FiniteSets, TLC

\* ------------------------------------------------------------------ bounds
\* largest value of --concurrency the model draws (the flag is any int)
MaxConcurrency == 2
\* capacity of the issues channel; make(chan *Issue, 100000) in the source,
\* scaled down so that the linters of the model can fill it
IssuesCap == 3

\* --------------------------------------------------------------- strings
NL == "\n"
Digits == <<"0", "1", "2", "3", "4", "5", "6", "7", "8", "9">>

\* the characters of the model in byte order (Go compares strings bytewise)
Ascii ==
  <<"\t", "\n", " ", "(", ")", "+", "-", ".", "0", "1", "2", "3", "4", "5",
    "6", "7", "8", "9", ":", "a", "b", "c", "d", "e", "f", "g", "h", "i",
    "j", "k", "l", "m", "n", "o", "p", "q", "r", "s", "t", "u", "v", "w",
    "x", "y", "z">>

Ord(c) == CHOOSE i \in 1..Len(Ascii) : Ascii[i] = c

IsDigit(c) == \E i \in 1..10 : Digits[i] = c
DigitVal(c) == (CHOOSE i \in 1..10 : Digits[i] = c) - 1
IsSpace(c) == c \in {" ", "\t", "\n"}

\* s[a..b], empty when b < a
Sub(s, a, b) == IF b < a THEN <<>> ELSE SubSeq(s, a, b)

\* Go's s < t on strings
RECURSIVE StrLess(_, _)
StrLess(s, t) ==
  IF t = <<>> THEN FALSE
  ELSE IF s = <<>> THEN TRUE
  ELSE IF Head(s) = Head(t) THEN StrLess(Tail(s), Tail(t))
  ELSE Ord(Head(s)) < Ord(Head(t))

\* ------------------------------------------------------- linter tables
Linters == {"golint", "vet", "errcheck"}

ErrcheckPattern == "(?P<path>[^:]+):(?P<line>\\d+):(?P<col>\\d+)\\t(?P<message>.*)"
PLCM == "(?P<path>[^:]+):(?P<line>\\d+):(?P<col>\\d+):\\s*(?P<message>.*)"
PLM == "(?P<path>[^:]+):(?P<line>\\d+):\\s*(?P<message>.*)"
\* a pattern regexp.Compile rejects
BadPattern == "("
\* patterns a user gives with --linter: one that matches every "digits:" of
\* a line, and PATH:LINE:MESSAGE with its first group named file
LinePattern == "(?P<line>\\d+):"
FilePattern == "(?P<file>[^:]+):(?P<line>\\d+):\\s*(?P<message>.*)"

predefinedPatterns ==
  [p \in {"PATH:LINE:COL:MESSAGE", "PATH:LINE:MESSAGE"} |->
     IF p = "PATH:LINE:COL:MESSAGE" THEN PLCM ELSE PLM]

\* the pattern half of the default lintersFlag entries
defaultLinters ==
  [l \in Linters |->
     CASE l = "golint" -> "PATH:LINE:COL:MESSAGE"
       [] l = "vet" -> "PATH:LINE:MESSAGE"
       [] l = "errcheck" -> ErrcheckPattern]

\* the default templates; the element "{message}" is the placeholder
linterMessageOverrideFlag ==
  [l \in {"errcheck"} |->
     <<"e", "r", "r", "o", "r", " ", "r", "e", "t", "u", "r", "n", " ",
       "v", "a", "l", "u", "e", " ", "n", "o", "t", " ",
       "c", "h", "e", "c", "k", "e", "d", " ", "(", "{message}", ")">>]

\* the default entries of linterSeverityFlag
defaultSeverities ==
  [l \in {"errcheck", "golint"} |-> "warning"]

\* ------------------------------------------------------- pure helpers
\* bytes.Split(out, "\n"): the pieces between newlines, the last one included
RECURSIVE Split(_)
Split(bs) ==
  IF \A i \in 1..Len(bs) : bs[i] # NL THEN <<bs>>
  ELSE LET n == CHOOSE i \in 1..Len(bs) :
                  bs[i] = NL /\ \A j \in 1..(i - 1) : bs[j] # NL
       IN <<Sub(bs, 1, n - 1)>> \o Split(Sub(bs, n + 1, Len(bs)))

\* index of the first ":" at or after s, 0 when there is none
ColonAfter(line, s) ==
  IF \E i \in s..Len(line) : line[i] = ":"
  THEN CHOOSE i \in s..Len(line) :
         line[i] = ":" /\ \A j \in s..(i - 1) : line[j] # ":"
  ELSE 0

\* index of the first character at or after a that is no digit (Len+1 at the end)
DigitsEnd(line, a) ==
  CHOOSE i \in a..(Len(line) + 1) :
    /\ \A j \in a..(i - 1) : IsDigit(line[j])
    /\ (i = Len(line) + 1 \/ ~IsDigit(line[i]))

\* index of the first character at or after a that is no white space
SpaceEnd(line, a) ==
  CHOOSE i \in a..(Len(line) + 1) :
    /\ \A j \in a..(i - 1) : IsSpace(line[j])
    /\ (i = Len(line) + 1 \/ ~IsSpace(line[i]))

\* The three patterns of the default table share one shape:
\*   [^:]+ ":" \d+ ( ":" \d+ )? sep message
\* where sep is ":" \s* (predefined patterns) or "\t" (errcheck).  The
\* submatches of a match that starts at s, or <<>> when none starts there.
\* With col: <<whole, path, line, col, message>>, else without the col.
MatchAt(line, s, hasCol, tab) ==
  LET p1 == ColonAfter(line, s)
      e1 == IF p1 = 0 THEN 0 ELSE DigitsEnd(line, p1 + 1)
      okLine == p1 > s /\ e1 > p1 + 1 /\ e1 <= Len(line)
      e2 == IF hasCol /\ okLine /\ line[e1] = ":"
            THEN DigitsEnd(line, e1 + 1) ELSE 0
      okCol == hasCol => (e2 > e1 + 1 /\ e2 <= Len(line))
      last == IF hasCol THEN e2 ELSE e1
      okSep == okLine /\ okCol /\ line[last] = (IF tab THEN "\t" ELSE ":")
      m == IF ~okSep THEN 0
           ELSE IF tab THEN last + 1 ELSE SpaceEnd(line, last + 1)
      nums == IF hasCol
              THEN <<Sub(line, p1 + 1, e1 - 1), Sub(line, e1 + 1, e2 - 1)>>
              ELSE <<Sub(line, p1 + 1, e1 - 1)>>
  IN IF ~okSep THEN <<>>
     ELSE <<Sub(line, s, Len(line)), Sub(line, s, p1 - 1)>> \o nums
            \o <<Sub(line, m, Len(line))>>

\* the patterns of the model that compile
Patterns == {PLCM, PLM, ErrcheckPattern, LinePattern, FilePattern}

\* regexp.Compile(pattern): does the pattern compile
Compiles(pattern) == pattern \in Patterns

\* re.SubexpNames()
SubexpNames(pattern) ==
  CASE pattern = PLM -> <<"", "path", "line", "message">>
    [] pattern = LinePattern -> <<"", "line">>
    [] pattern = FilePattern -> <<"", "file", "line", "message">>
    [] OTHER -> <<"", "path", "line", "col", "message">>

\* the submatches of the leftmost match that starts at or after s
RECURSIVE FirstMatch(_, _, _, _)
FirstMatch(line, s, hasCol, tab) ==
  IF s > Len(line) THEN <<>>
  ELSE LET m == MatchAt(line, s, hasCol, tab)
       IN IF m # <<>> THEN m ELSE FirstMatch(line, s + 1, hasCol, tab)

\* the matches of LinePattern that start at or after s, leftmost first,
\* each <<whole, line>>: a run of digits that a ":" follows; a run that
\* none follows holds no match, and the search resumes after a match
RECURSIVE DigitMatches(_, _)
DigitMatches(line, s) ==
  IF s > Len(line) THEN <<>>
  ELSE LET e == DigitsEnd(line, s)
       IN IF e > s /\ e <= Len(line) /\ line[e] = ":"
          THEN <<<<Sub(line, s, e), Sub(line, s, e - 1)>>>>
                 \o DigitMatches(line, e + 1)
          ELSE DigitMatches(line, IF e > s THEN e ELSE s + 1)

\* re.FindAllSubmatch(line, -1): every non-overlapping match, leftmost
\* first.  The message group of the other patterns runs to the end of the
\* line, so no second match can follow their leftmost match.
FindAllSubmatch(pattern, line) ==
  IF pattern = LinePattern THEN DigitMatches(line, 1)
  ELSE LET m == FirstMatch(line, 1, pattern \notin {PLM, FilePattern},
                           pattern = ErrcheckPattern)
       IN IF m = <<>> THEN <<>> ELSE <<m>>

\* digits without their leading zeros (one "0" is kept)
RECURSIVE StripZeros(_)
StripZeros(ds) ==
  IF Len(ds) > 1 /\ Head(ds) = "0" THEN StripZeros(Tail(ds)) ELSE ds

\* ds <= lim for two digit strings of the same length
RECURSIVE DigitsLeq(_, _)
DigitsLeq(ds, lim) ==
  IF ds = <<>> THEN TRUE
  ELSE IF Head(ds) = Head(lim) THEN DigitsLeq(Tail(ds), Tail(lim))
  ELSE DigitVal(Head(ds)) < DigitVal(Head(lim))

\* the number a string of digits denotes, negated when neg
RECURSIVE DigitsVal(_, _)
DigitsVal(ds, neg) ==
  IF ds = <<>> THEN 0
  ELSE LET d == DigitVal(ds[Len(ds)])
       IN DigitsVal(Sub(ds, 1, Len(ds) - 1), neg) * 10 + (IF neg THEN 0 - d ELSE d)

MaxInt32 == <<"2", "1", "4", "7", "4", "8", "3", "6", "4", "7">>
MinInt32 == <<"2", "1", "4", "7", "4", "8", "3", "6", "4", "8">>

\* strconv.ParseInt(part, 10, 32): [err, n]; err for an empty string, a
\* character that is no digit after the optional sign, or a value out of
\* the range of int32
ParseInt(part) ==
  LET signed == part # <<>> /\ Head(part) \in {"+", "-"}
      neg == signed /\ Head(part) = "-"
      ds == IF signed THEN Tail(part) ELSE part
      syntax == ds = <<>> \/ \E i \in 1..Len(ds) : ~IsDigit(ds[i])
      sig == StripZeros(ds)
      range == \/ Len(sig) > 10
               \/ Len(sig) = 10 /\ ~DigitsLeq(sig, IF neg THEN MinInt32 ELSE MaxInt32)
  IN IF syntax \/ range THEN [err |-> TRUE, n |-> 0]
     ELSE [err |-> FALSE, n |-> DigitsVal(sig, neg)]

\* fmt.Sprintf("%d", n)
RECURSIVE Itoa(_)
Itoa(n) ==
  IF n < 0 THEN <<"-">> \o Itoa(0 - n)
  ELSE IF n < 10 THEN <<Digits[n + 1]>>
  ELSE Itoa(n \div 10) \o <<Digits[(n % 10) + 1]>>

\* the characters of a Severity
SeverityText(sev) ==
  CASE sev = "warning" -> <<"w", "a", "r", "n", "i", "n", "g">>
    [] sev = "error" -> <<"e", "r", "r", "o", "r">>
    [] sev = "info" -> <<"i", "n", "f", "o">>

\* String without the severity field
StringNoSeverity(m) ==
  LET col == IF m.col # 0 THEN Itoa(m.col) ELSE <<>>
  IN m.path \o <<":">> \o Itoa(m.line) \o <<":">> \o col \o <<":", " ">>
       \o m.message

\* Issue.String()
String(m) ==
  LET col == IF m.col # 0 THEN Itoa(m.col) ELSE <<>>
  IN m.path \o <<":">> \o Itoa(m.line) \o <<":">> \o col \o <<":">>
       \o SeverityText(m.severity) \o <<":", " ">> \o m.message

\* strings.Replace(m, "{message}", message, -1)
RECURSIVE Replace(_, _)
Replace(m, message) ==
  IF m = <<>> THEN <<>>
  ELSE (IF Head(m) = "{message}" THEN message ELSE <<Head(m)>>)
         \o Replace(Tail(m), message)

\* regexp.MatchString for the exclude patterns of the model: a pattern
\* without metacharacters matches the lines that contain it
Contains(s, sub) ==
  \E a \in 1..(Len(s) - Len(sub) + 1) : Sub(s, a, a + Len(sub) - 1) = sub

ExcludeText(flag) ==
  CASE flag = "warning" -> <<"w", "a", "r", "n", "i", "n", "g">>
    [] flag = "y.go" -> <<"y", ".", "g", "o">>

\* filter != nil && filter.MatchString(issue.String())
Excluded(flag, m) == flag # "" /\ Contains(String(m), ExcludeText(flag))

\* &Issue{}
ZeroIssue == [severity |-> "", path |-> <<>>, line |-> 0, col |-> 0, message |-> <<>>]

\* The switch of executeLinter on the i-th subexpression name, applied to an
\* issue under construction: r.fatal once kingpin.FatalIfError or
\* kingpin.Fatalf has been reached.
SetField(r, name, part) ==
  IF r.fatal THEN r
  ELSE CASE name = "path" -> [r EXCEPT !.issue.path = part]
         [] name = "line" ->
              IF ParseInt(part).err THEN [r EXCEPT !.fatal = TRUE]
              ELSE [r EXCEPT !.issue.line = ParseInt(part).n]
         [] name = "col" ->
              IF ParseInt(part).err THEN [r EXCEPT !.fatal = TRUE]
              ELSE [r EXCEPT !.issue.col = ParseInt(part).n]
         [] name = "message" -> [r EXCEPT !.issue.message = part]
         [] name = "" -> r
         [] OTHER -> [r EXCEPT !.fatal = TRUE]

RECURSIVE SetFields(_, _, _, _)
SetFields(r, names, match, i) ==
  IF i > Len(names) THEN r
  ELSE SetFields(SetField(r, names[i], match[i]), names, match, i + 1)

\* linterSeverityFlag: name -> severity, the defaults and what --severity adds
VARIABLE linterSeverityFlag

\* The body of the loop of executeLinter for a line that matched, for a
\* given content of linterSeverityFlag: the Issue built from groups[0],
\* with the message and severity overrides applied.
BuildIssueWith(severities, name, pattern, groups) ==
  LET r == SetFields([fatal |-> FALSE, issue |-> ZeroIssue],
                     SubexpNames(pattern), groups[1], 1)
      msg == IF name \in DOMAIN linterMessageOverrideFlag
             THEN Replace(linterMessageOverrideFlag[name], r.issue.message)
             ELSE r.issue.message
      sev == IF name \in DOMAIN severities THEN severities[name] ELSE "error"
  IN IF r.fatal THEN r
     ELSE [r EXCEPT !.issue.message = msg, !.issue.severity = sev]

BuildIssue(name, pattern, groups) ==
  BuildIssueWith(linterSeverityFlag, name, pattern, groups)

\* if p, ok := predefinedPatterns[pattern]; ok { pattern = p }
Resolve(pattern) ==
  IF pattern \in DOMAIN predefinedPatterns THEN predefinedPatterns[pattern]
  ELSE pattern

\* the index of the first line after the n-th with a match, Len(gs) + 1
\* when there is none; gs[k] is what FindAllSubmatch returns for line k
RECURSIVE NextMatch(_, _)
NextMatch(gs, n) ==
  IF n >= Len(gs) THEN Len(gs) + 1
  ELSE IF gs[n + 1] # <<>> THEN n + 1
  ELSE NextMatch(gs, n + 1)

\* ------------------------------------------------------------ the inputs
\* --linter tables of a user who gives vet a pattern of their own
UserTables ==
  {[defaultLinters EXCEPT !["vet"] = LinePattern],
   [defaultLinters EXCEPT !["vet"] = FilePattern]}

\* linterSeverityFlag after --severity: untouched, or with golint set to a
\* level that is none of the Severity constants (the flag takes any string)
SeverityMaps ==
  {defaultSeverities,
   [l \in {"errcheck", "golint"} |-> IF l = "golint" THEN "info" ELSE "warning"]}

\* the --linter tables of the model: the defaults, and the defaults with one
\* entry replaced by the user
LinterTables ==
  {defaultLinters, [defaultLinters EXCEPT !["vet"] = BadPattern]}

\* the --exclude values of the model; "(" does not compile
ExcludeFlags == {"", "warning", "("}

XGo == <<"x", ".", "g", "o">>
YGo == <<"y", ".", "g", "o">>
Huge == <<"9", "9", "9", "9", "9", "9", "9", "9", "9", "9">>

\* what a linter may write (stdout and stderr combined), by name
OutputNames == {"nothing", "two", "tab", "huge"}
RawOutput(o) ==
  CASE o = "nothing" -> <<>>
    [] o = "two" -> YGo \o <<":", "2", ":", "1", ":", " ", "m", NL>>
                      \o XGo \o <<":", "1", ":", "1", ":", " ", "m">>
    [] o = "tab" -> XGo \o <<":", "1", ":", "1", "\t", "m", NL>>
    [] o = "huge" -> <<"o", "k", NL>> \o XGo \o <<":">> \o Huge
                       \o <<":", "1", ":", " ", "m", NL>>

\* for _, line := range bytes.Split(out, "\n") { groups := re.FindAllSubmatch(line, -1)
\* for every pattern that compiles and every output: the groups of each line
\* (a table, so that the matching is computed once per pattern and output)
RECURSIVE MatchLines(_, _)
MatchLines(p, ls) ==
  IF ls = <<>> THEN <<>>
  ELSE <<FindAllSubmatch(p, Head(ls))>> \o MatchLines(p, Tail(ls))

Groups ==
  [p \in Patterns, o \in OutputNames |->
     MatchLines(p, Split(RawOutput(o)))] @@ <<>>

\* -------------------------------------------------------------- the state
VARIABLES
  concurrencyFlag,     \* *concurrencyFlag
  lintersFlag,         \* lintersFlag: name -> pattern
  disableLintersFlag,  \* *disableLintersFlag, as a set
  fastFlag,            \* *fastFlag
  excludeFlag,         \* *excludeFlag
  mainpc,              \* where main is
  ranged,              \* the names the range over lintersFlag has visited
  concurrency,         \* number of values in the channel concurrency
  issues,              \* the values in the channel issues, oldest first
  closed,              \* issues has been closed
  wg,                  \* the counter of the WaitGroup
  exited,              \* the process has been terminated (os.Exit, panic)
  pc,                  \* where the goroutine of each linter is
  out,                 \* out of cmd.CombinedOutput(), as a name of OutputNames
  err,                 \* err of cmd.CombinedOutput() in each goroutine
  lines,               \* number of lines of out the loop is done with
  issue,               \* the Issue a goroutine is about to send
  pushed,              \* history: the Issues each goroutine has sent
  printed,             \* the Issues printed, in the order of their lines
  closes,              \* history: number of close(issues) executed
  lessCall,            \* a call of Issues.Less: its receiver and its results
  roundTrip            \* a line, the Issue extracted from it, its rendering

vars ==
  <<concurrencyFlag, lintersFlag, linterSeverityFlag, disableLintersFlag,
    fastFlag, excludeFlag, mainpc, ranged, concurrency, issues, closed, wg,
    exited, pc, out, err, lines, issue, pushed, printed, closes, lessCall,
    roundTrip>>

\* what a run of main leaves alone: the flags but --disable, and the values
\* the unit specifications of Issues.Less and Issue.String work on
config ==
  <<concurrencyFlag, lintersFlag, linterSeverityFlag, fastFlag, excludeFlag,
    lessCall, roundTrip>>
mainState == <<mainpc, ranged, closed, printed, closes>>
taskLocal == <<out, err, lines, issue>>

\* main has not begun: no goroutine, no channel content, nothing printed
Fresh ==
  /\ mainpc = "parse"
  /\ ranged = {}
  /\ concurrency = 0
  /\ issues = <<>>
  /\ closed = FALSE
  /\ wg = 0
  /\ exited = FALSE
  /\ pc = [l \in Linters |-> "idle"]
  /\ out = [l \in Linters |-> "nothing"]
  /\ err = [l \in Linters |-> "nil"]
  /\ lines = [l \in Linters |-> 0]
  /\ issue = [l \in Linters |-> ZeroIssue]
  /\ pushed = [l \in Linters |-> <<>>]
  /\ printed = <<>>
  /\ closes = 0

\* no call of Issues.Less and no line to extract and render
NoUnit ==
  /\ lessCall = <<>>
  /\ roundTrip = <<>>

\* a run with the default severities, any of the linter tables, any set of
\* disabled linters
Init ==
  /\ concurrencyFlag \in 1..MaxConcurrency
  /\ lintersFlag \in LinterTables
  /\ linterSeverityFlag = defaultSeverities
  /\ disableLintersFlag \in SUBSET Linters
  /\ fastFlag \in BOOLEAN
  /\ excludeFlag \in ExcludeFlags
  /\ Fresh
  /\ NoUnit

\* fmt.Printf("%s\n", issue): the lines written to the standard output
stdout == [k \in 1..Len(printed) |-> String(printed[k])]

\* the process still runs: os.Exit (kingpin.FatalIfError, kingpin.Fatalf) and
\* an unrecovered panic stop every goroutine
RunningForever == TRUE
Running == ~exited

\* ------------------------------------------------------------------ main
\* Parse without the compilation of --exclude
ParseNoCompile ==
  /\ Running
  /\ mainpc = "parse"
  /\ disableLintersFlag' =
       IF fastFlag
       THEN disableLintersFlag \cup {"structcheck", "varcheck", "errcheck"}
       ELSE disableLintersFlag
  /\ mainpc' = "range"
  /\ UNCHANGED <<config, ranged, concurrency, issues, closed, wg, exited, pc,
                 taskLocal, pushed, printed, closes>>

\* Parse without the --fast block
ParseNoFast ==
  /\ Running
  /\ mainpc = "parse"
  /\ IF excludeFlag = "("
     THEN /\ exited' = TRUE
          /\ mainpc' = "panic"
     ELSE /\ mainpc' = "range"
          /\ UNCHANGED exited
  /\ UNCHANGED <<config, disableLintersFlag, ranged, concurrency, issues,
                 closed, wg, pc, taskLocal, pushed, printed, closes>>

\* main, kingpin.Parse() to the --fast block: regexp.MustCompile panics on
\* an --exclude that does not compile
Parse ==
  /\ Running
  /\ mainpc = "parse"
  /\ IF excludeFlag = "("
     THEN /\ exited' = TRUE
          /\ mainpc' = "panic"
          /\ UNCHANGED disableLintersFlag
     ELSE /\ disableLintersFlag' =
               IF fastFlag
               THEN disableLintersFlag \cup {"structcheck", "varcheck", "errcheck"}
               ELSE disableLintersFlag
          /\ mainpc' = "range"
          /\ UNCHANGED exited
  /\ UNCHANGED <<config, ranged, concurrency, issues, closed, wg, pc,
                 taskLocal, pushed, printed, closes>>

\* Range without its wg.Add(1)
RangeNoAdd(l) ==
  /\ Running
  /\ mainpc = "range"
  /\ l \in DOMAIN lintersFlag \ ranged
  /\ ranged' = ranged \cup {l}
  /\ IF l \in disableLintersFlag
     THEN UNCHANGED pc
     ELSE pc' = [pc EXCEPT ![l] = "send"]
  /\ UNCHANGED <<config, disableLintersFlag, mainpc, concurrency, issues,
                 closed, wg, exited, taskLocal, pushed, printed, closes>>

\* one iteration of the range over lintersFlag (map order: any name not yet
\* visited): a disabled linter is skipped, any other gets wg.Add(1) and its
\* goroutine
Range(l) ==
  /\ Running
  /\ mainpc = "range"
  /\ l \in DOMAIN lintersFlag \ ranged
  /\ ranged' = ranged \cup {l}
  /\ IF l \in disableLintersFlag
     THEN UNCHANGED <<wg, pc>>
     ELSE /\ wg' = wg + 1
          /\ pc' = [pc EXCEPT ![l] = "send"]
  /\ UNCHANGED <<config, disableLintersFlag, mainpc, concurrency, issues,
                 closed, exited, taskLocal, pushed, printed, closes>>

\* wg.Wait() blocks until the counter of the WaitGroup is zero
WaitOverAtOnce == TRUE
WaitOver == wg = 0

\* wg.Wait() returns, after the range loop, once the counter is zero
WgWait ==
  /\ Running
  /\ mainpc = "range"
  /\ ranged = DOMAIN lintersFlag
  /\ WaitOver
  /\ mainpc' = "close"
  /\ UNCHANGED <<config, disableLintersFlag, ranged, concurrency, issues,
                 closed, wg, exited, pc, taskLocal, pushed, printed, closes>>

\* close(issues)
Close ==
  /\ Running
  /\ mainpc = "close"
  /\ closed' = TRUE
  /\ closes' = closes + 1
  /\ mainpc' = "drain"
  /\ UNCHANGED <<config, disableLintersFlag, ranged, concurrency, issues, wg,
                 exited, pc, taskLocal, pushed, printed>>

\* Drain without the test of the filter: every Issue received is printed
DrainNoFilter ==
  /\ Running
  /\ mainpc = "drain"
  /\ IF issues # <<>>
     THEN /\ issues' = Tail(issues)
          /\ printed' = Append(printed, Head(issues))
          /\ UNCHANGED mainpc
     ELSE /\ closed
          /\ mainpc' = "end"
          /\ UNCHANGED <<issues, printed>>
  /\ UNCHANGED <<config, disableLintersFlag, ranged, concurrency, closed, wg,
                 exited, pc, taskLocal, pushed, closes>>

\* one iteration of `for issue := range issues`: the oldest Issue is
\* received and printed unless the filter matches it; the loop (and main)
\* ends when the closed channel is empty
Drain ==
  /\ Running
  /\ mainpc = "drain"
  /\ IF issues # <<>>
     THEN /\ issues' = Tail(issues)
          /\ IF Excluded(excludeFlag, Head(issues))
             THEN UNCHANGED printed
             ELSE printed' = Append(printed, Head(issues))
          /\ UNCHANGED mainpc
     ELSE /\ closed
          /\ mainpc' = "end"
          /\ UNCHANGED <<issues, printed>>
  /\ UNCHANGED <<config, disableLintersFlag, ranged, concurrency, closed, wg,
                 exited, pc, taskLocal, pushed, closes>>

\* ------------------------------------------------- a linter's goroutine
\* the channel concurrency, made with capacity *concurrencyFlag, has room
GateFreeOneMore == concurrency <= concurrencyFlag
GateFreeOneLess == concurrency < concurrencyFlag - 1
GateFree == concurrency < concurrencyFlag

\* concurrency <- true: blocks while the channel holds *concurrencyFlag values
Send(l) ==
  /\ Running
  /\ pc[l] = "send"
  /\ GateFree
  /\ concurrency' = concurrency + 1
  /\ pc' = [pc EXCEPT ![l] = "start"]
  /\ UNCHANGED <<config, disableLintersFlag, mainState, issues, wg, exited,
                 taskLocal, pushed>>

\* executeLinter up to exec.Command: the pattern is resolved and compiled,
\* kingpin.FatalIfError ends the process when it does not compile
Start(l) ==
  /\ Running
  /\ pc[l] = "start"
  /\ IF Compiles(Resolve(lintersFlag[l]))
     THEN /\ pc' = [pc EXCEPT ![l] = "exec"]
          /\ UNCHANGED exited
     ELSE /\ pc' = [pc EXCEPT ![l] = "fatal"]
          /\ exited' = TRUE
  /\ UNCHANGED <<config, disableLintersFlag, mainState, concurrency, issues,
                 wg, taskLocal, pushed>>

\* err != nil and err is no *exec.ExitError
LaunchFailedNever(e) == FALSE
LaunchFailedOnAnyError(e) == e # "nil"
LaunchFailed(e) == e = "other"

\* cmd.CombinedOutput() returns: with no error, with an *exec.ExitError
\* (the command ran and returned a non-zero status) or with another error
\* (the command could not be run, and has written nothing), on which
\* executeLinter returns
CombinedOutput(l) ==
  /\ Running
  /\ pc[l] = "exec"
  /\ \E e \in {"nil", "ExitError", "other"}, o \in OutputNames :
       /\ e = "other" => o = "nothing"
       /\ err' = [err EXCEPT ![l] = e]
       /\ out' = [out EXCEPT ![l] = o]
       /\ IF LaunchFailed(e)
          THEN /\ pc' = [pc EXCEPT ![l] = "recv"]
               /\ UNCHANGED lines
          ELSE /\ pc' = [pc EXCEPT ![l] = "loop"]
               /\ lines' = [lines EXCEPT ![l] = 0]
  /\ UNCHANGED <<config, disableLintersFlag, mainState, concurrency, issues,
                 wg, exited, issue, pushed>>

\* the command never exits: cmd.CombinedOutput() never returns
Hang(l) ==
  /\ Running
  /\ pc[l] = "exec"
  /\ pc' = [pc EXCEPT ![l] = "hung"]
  /\ UNCHANGED <<config, disableLintersFlag, mainState, concurrency, issues,
                 wg, exited, taskLocal, pushed>>

\* the loop over the lines of out, up to its next send: lines without a
\* match are skipped, the Issue of the first line with one is built (or the
\* process is ended by a fatal error); executeLinter returns after the
\* last line
Loop(l) ==
  /\ Running
  /\ pc[l] = "loop"
  /\ LET re == Resolve(lintersFlag[l])
         gs == Groups[re, out[l]]
         n == NextMatch(gs, lines[l])
         r == BuildIssue(l, re, gs[n])
     IN IF n > Len(gs)
        THEN /\ pc' = [pc EXCEPT ![l] = "recv"]
             /\ lines' = [lines EXCEPT ![l] = Len(gs)]
             /\ UNCHANGED <<issue, exited>>
        ELSE IF r.fatal
        THEN /\ pc' = [pc EXCEPT ![l] = "fatal"]
             /\ exited' = TRUE
             /\ UNCHANGED <<lines, issue>>
        ELSE /\ pc' = [pc EXCEPT ![l] = "push"]
             /\ lines' = [lines EXCEPT ![l] = n]
             /\ issue' = [issue EXCEPT ![l] = r.issue]
             /\ UNCHANGED exited
  /\ UNCHANGED <<config, disableLintersFlag, mainState, concurrency, issues,
                 wg, out, err, pushed>>

\* the channel issues, made with capacity IssuesCap, has room
HasRoomNever == FALSE
HasRoom == Len(issues) < IssuesCap

\* Push with the Issue put before the ones the channel holds
PushFront(l) ==
  /\ Running
  /\ pc[l] = "push"
  /\ IF closed
     THEN /\ pc' = [pc EXCEPT ![l] = "panic"]
          /\ exited' = TRUE
          /\ UNCHANGED <<issues, pushed>>
     ELSE /\ HasRoom
          /\ issues' = <<issue[l]>> \o issues
          /\ pushed' = [pushed EXCEPT ![l] = Append(@, issue[l])]
          /\ pc' = [pc EXCEPT ![l] = "loop"]
          /\ UNCHANGED exited
  /\ UNCHANGED <<config, disableLintersFlag, mainState, concurrency, wg,
                 taskLocal>>

\* issues <- issue: blocks while the channel is full, panics once it is closed
Push(l) ==
  /\ Running
  /\ pc[l] = "push"
  /\ IF closed
     THEN /\ pc' = [pc EXCEPT ![l] = "panic"]
          /\ exited' = TRUE
          /\ UNCHANGED <<issues, pushed>>
     ELSE /\ HasRoom
          /\ issues' = Append(issues, issue[l])
          /\ pushed' = [pushed EXCEPT ![l] = Append(@, issue[l])]
          /\ pc' = [pc EXCEPT ![l] = "loop"]
          /\ UNCHANGED exited
  /\ UNCHANGED <<config, disableLintersFlag, mainState, concurrency, wg,
                 taskLocal>>

\* Recv without the receive: the goroutine keeps its slot of the gate
RecvKeepSlot(l) ==
  /\ Running
  /\ pc[l] = "recv"
  /\ pc' = [pc EXCEPT ![l] = "done"]
  /\ UNCHANGED <<config, disableLintersFlag, mainState, concurrency, issues,
                 wg, exited, taskLocal, pushed>>

\* <-concurrency
Recv(l) ==
  /\ Running
  /\ pc[l] = "recv"
  /\ concurrency > 0
  /\ concurrency' = concurrency - 1
  /\ pc' = [pc EXCEPT ![l] = "done"]
  /\ UNCHANGED <<config, disableLintersFlag, mainState, issues, wg, exited,
                 taskLocal, pushed>>

\* wg.Done()
WgDone(l) ==
  /\ Running
  /\ pc[l] = "done"
  /\ wg' = wg - 1
  /\ pc' = [pc EXCEPT ![l] = "end"]
  /\ UNCHANGED <<config, disableLintersFlag, mainState, concurrency, issues,
                 exited, taskLocal, pushed>>

Next ==
  \/ Parse
  \/ \E l \in Linters : Range(l)
  \/ WgWait
  \/ Close
  \/ Drain
  \/ \E l \in Linters : Send(l)
  \/ \E l \in Linters : Start(l)
  \/ \E l \in Linters : CombinedOutput(l)
  \/ \E l \in Linters : Hang(l)
  \/ \E l \in Linters : Loop(l)
  \/ \E l \in Linters : Push(l)
  \/ \E l \in Linters : Recv(l)
  \/ \E l \in Linters : WgDone(l)

Spec == Init /\ [][Next]_vars

\* a --fast run (errcheck is disabled) with a pattern of the user's for vet
\* and any of the severity maps
UserInit ==
  /\ concurrencyFlag \in 1..MaxConcurrency
  /\ lintersFlag \in UserTables
  /\ linterSeverityFlag \in SeverityMaps
  /\ disableLintersFlag = {}
  /\ fastFlag = TRUE
  /\ excludeFlag = ""
  /\ Fresh
  /\ NoUnit

UserSpec == UserInit /\ [][Next]_vars

\* every step but Hang: nothing makes a command exit, so no fairness is
\* asked of a command that may hang
Progress ==
  \/ Parse
  \/ \E l \in Linters : Range(l)
  \/ WgWait
  \/ Close
  \/ Drain
  \/ \E l \in Linters : Send(l)
  \/ \E l \in Linters : Start(l)
  \/ \E l \in Linters : CombinedOutput(l)
  \/ \E l \in Linters : Loop(l)
  \/ \E l \in Linters : Push(l)
  \/ \E l \in Linters : Recv(l)
  \/ \E l \in Linters : WgDone(l)

\* The scheduler runs every goroutine that can take a step, and a goroutine
\* blocked on a channel is woken when the channel allows the operation.  No
\* step of the program can be undone or repeated (every step moves main or
\* a goroutine forward), so a run is fair exactly when it does not stop
\* while a step other than Hang is possible.
Fairness == WF_vars(Progress)

FairSpec == Init /\ [][Next]_vars /\ Fairness

\* ------------------------------------------- Issue.String, unit by unit
\* the flags as kingpin leaves them when the command line gives none
\* (--concurrency apart, which plays no part here)
DefaultFlags ==
  /\ concurrencyFlag = 1
  /\ lintersFlag = defaultLinters
  /\ linterSeverityFlag = defaultSeverities
  /\ disableLintersFlag = {}
  /\ fastFlag = FALSE
  /\ excludeFlag = ""

\* a line as golint (with a col) or vet (without) writes it
OutputLine(path, ln, hasCol, col, msg) ==
  path \o <<":">> \o ln \o (IF hasCol THEN <<":">> \o col ELSE <<>>)
    \o <<":", " ">> \o msg

RoundTripPaths == {XGo, <<"a", " ", "b">>}
RoundTripNumbers == {<<"0">>, <<"1">>, <<"0", "0", "7">>, <<"1", "2">>}
RoundTripMessages == {<<>>, <<"m">>, <<"a", ":", " ", "b">>}

\* a linter of the default table with a predefined pattern, and a line of
\* its output
RoundTripInit ==
  /\ DefaultFlags
  /\ Fresh
  /\ lessCall = <<>>
  /\ \E name \in {"golint", "vet"}, path \in RoundTripPaths,
        ln \in RoundTripNumbers, col \in RoundTripNumbers,
        msg \in RoundTripMessages :
       /\ name = "vet" => col = <<"0">>
       /\ roundTrip =
            [stage |-> "line", name |-> name,
             line |-> OutputLine(path, ln, name = "golint", col, msg),
             issue |-> ZeroIssue, text |-> <<>>,
             issue2 |-> ZeroIssue, text2 |-> <<>>]

\* what a unit step leaves alone: everything of a run of main
mainVars ==
  <<concurrencyFlag, lintersFlag, linterSeverityFlag, disableLintersFlag,
    fastFlag, excludeFlag, mainpc, ranged, concurrency, issues, closed, wg,
    exited, pc, out, err, lines, issue, pushed, printed, closes>>

\* the body of the loop of executeLinter on one line: "none" when the line
\* has no match, "fatal" on a fatal error, else the Issue it sends
Extract(name, line) ==
  LET re == Resolve(lintersFlag[name])
      groups == FindAllSubmatch(re, line)
  IN IF groups = <<>> THEN [result |-> "none", issue |-> ZeroIssue]
     ELSE IF BuildIssue(name, re, groups).fatal
     THEN [result |-> "fatal", issue |-> ZeroIssue]
     ELSE [result |-> "issue", issue |-> BuildIssue(name, re, groups).issue]

\* the line is given to the loop body of executeLinter
ExtractLine ==
  /\ roundTrip.stage = "line"
  /\ LET r == Extract(roundTrip.name, roundTrip.line)
     IN roundTrip' = [roundTrip EXCEPT !.stage = r.result, !.issue = r.issue]
  /\ UNCHANGED <<mainVars, lessCall>>

\* issue.String()
RenderIssue ==
  /\ roundTrip.stage = "issue"
  /\ roundTrip' = [roundTrip EXCEPT !.stage = "rendered",
                                    !.text = String(roundTrip.issue)]
  /\ UNCHANGED <<mainVars, lessCall>>

\* the rendered line is given to the loop body, as the output of the same
\* linter
ParseRendered ==
  /\ roundTrip.stage = "rendered"
  /\ LET r == Extract(roundTrip.name, roundTrip.text)
     IN roundTrip' =
          [roundTrip EXCEPT
             !.stage = IF r.result = "issue" THEN "reparsed" ELSE "unparsed",
             !.issue2 = r.issue]
  /\ UNCHANGED <<mainVars, lessCall>>

\* String() of the Issue parsed from the rendered line
RenderParsed ==
  /\ roundTrip.stage = "reparsed"
  /\ roundTrip' = [roundTrip EXCEPT !.stage = "rerendered",
                                    !.text2 = String(roundTrip.issue2)]
  /\ UNCHANGED <<mainVars, lessCall>>

RoundTripNext ==
  \/ ExtractLine
  \/ RenderIssue
  \/ ParseRendered
  \/ RenderParsed

RoundTripSpec == RoundTripInit /\ [][RoundTripNext]_vars

\* --------------------------------------------- Issues.Less, unit by unit
\* func (m Issues) Less(i, j int) bool
Less(m, i, j) ==
  \/ StrLess(m[i].path, m[j].path)
  \/ m[i].line < m[j].line
  \/ m[i].col < m[j].col

\* the Issues the comparison is tried on
LessIssues ==
  {[severity |-> "error", path |-> p, line |-> n, col |-> c, message |-> <<"m">>] :
     p \in {XGo, YGo}, n \in 1..2, c \in 0..1}

\* an Issues value of three elements, Less not yet called on it
LessInit ==
  /\ DefaultFlags
  /\ Fresh
  /\ roundTrip = <<>>
  /\ \E a \in LessIssues, b \in LessIssues, c \in LessIssues :
       lessCall = [m |-> <<a, b, c>>, called |-> FALSE,
                   less |-> [i \in 1..3, j \in 1..3 |-> FALSE]]

\* m.Less(i, j) for every pair of indices
CallLess ==
  /\ ~lessCall.called
  /\ lessCall' = [lessCall EXCEPT
                    !.called = TRUE,
                    !.less = [i \in 1..3, j \in 1..3 |-> Less(lessCall.m, i, j)]]
  /\ UNCHANGED <<mainVars, roundTrip>>

LessNext == CallLess

LessSpec == LessInit /\ [][LessNext]_vars

\* ------------------------------------------------------------ the claims
\* the goroutine of l is between `concurrency <- true` and `<-concurrency`
Admitted(l) ==
  pc[l] \in {"start", "exec", "hung", "loop", "push", "recv", "fatal", "panic"}

\* the goroutine of l has returned, or l was disabled and never got one
Finished(l) == pc[l] = "end" \/ (pc[l] = "idle" /\ l \in ranged)

AllFinished == \A l \in Linters : Finished(l)

RECURSIVE SumLen(_, _)
SumLen(f, S) ==
  IF S = {} THEN 0
  ELSE LET x == CHOOSE y \in S : TRUE IN Len(f[x]) + SumLen(f, S \ {x})

\* number of Issues sent on the channel issues so far
TotalPushed == SumLen(pushed, Linters)

\* C1: in every reachable state at most *concurrencyFlag goroutines are
\* between their send on concurrency and their receive from it.
C1_Ceiling ==
  Cardinality({l \in Linters : Admitted(l)}) <= concurrencyFlag

\* C1 witness: the gate is full, with one command running and a goroutine
\* waiting to be admitted.
C1_Witness ==
  /\ Cardinality({l \in Linters : Admitted(l)}) = concurrencyFlag
  /\ \E l \in Linters : pc[l] = "exec"
  /\ \E l \in Linters : pc[l] = "send"

\* C2: issues is closed only once every goroutine launched has finished, no
\* goroutine sends on it after the close (the send would panic), and it is
\* closed once: never twice, and once by the time main drains it.
C2_CloseAfterAll ==
  /\ closed => AllFinished
  /\ \A l \in Linters : pc[l] # "panic"
  /\ closes <= 1
  /\ closed <=> closes = 1
  /\ mainpc \in {"drain", "end"} => closes = 1

\* C2 witness: issues is closed after one goroutine has sent Issues and
\* another has returned on a command that could not be run.
C2_Witness ==
  /\ closed
  /\ \E l \in Linters : pushed[l] # <<>>
  /\ \E l \in Linters : pc[l] = "end" /\ err[l] = "other"

\* C3: main receives from issues (and so prints) only after the channel is
\* closed and every goroutine has finished.
C3_DrainAfterAll ==
  (mainpc \in {"drain", "end"} \/ printed # <<>> \/ Len(issues) < TotalPushed)
    => (closed /\ AllFinished)

\* C3 witness: a line has been printed, Issues of two linters having been sent.
C3_Witness ==
  /\ printed # <<>>
  /\ Cardinality({l \in Linters : pushed[l] # <<>>}) >= 2

\* the Issues of a sequence that the filter lets through
RECURSIVE Kept(_)
Kept(ms) ==
  IF ms = <<>> THEN <<>>
  ELSE (IF Excluded(excludeFlag, Head(ms)) THEN <<>> ELSE <<Head(ms)>>)
         \o Kept(Tail(ms))

\* the Issues the loop of executeLinter builds from the groups of the lines
RECURSIVE IssuesWith(_, _, _, _)
IssuesWith(severities, l, re, gs) ==
  IF gs = <<>> THEN <<>>
  ELSE (IF Head(gs) = <<>> THEN <<>>
        ELSE <<BuildIssueWith(severities, l, re, Head(gs)).issue>>)
         \o IssuesWith(severities, l, re, Tail(gs))

IssuesOf(l, re, gs) == IssuesWith(linterSeverityFlag, l, re, gs)

\* IssuesWith for every severity map, linter, pattern and output of the
\* model (a table, so that the Issues are built once)
IssuesTable ==
  [severities \in SeverityMaps, l \in Linters, re \in Patterns, o \in OutputNames |->
     IssuesWith(severities, l, re, Groups[re, o])] @@ <<>>

\* the Issues the loop of executeLinter builds from the output of l's command
Extracted(l) ==
  IssuesTable[linterSeverityFlag, l, Resolve(lintersFlag[l]), out[l]]

\* C4: for any two printed Issues A and B with A.path < B.path, the line of
\* A is printed before the line of B.
C4_PathOrder ==
  \A i, j \in 1..Len(printed) :
    StrLess(printed[i].path, printed[j].path) => i < j

\* C5: the lines printed by a run depend only on what the linters wrote,
\* not on the interleaving.  The run that executes the linters one after
\* the other in the order errcheck, golint, vet is one interleaving, so a
\* deterministic output is the output of that run: the Issues of errcheck,
\* then those of golint, then those of vet, less the excluded ones.
C5_Deterministic ==
  mainpc = "end" =>
    printed = Kept(pushed["errcheck"] \o pushed["golint"] \o pushed["vet"])

\* C7: a send on issues never blocks: whenever a goroutine is at its send,
\* the channel has room.
C7_NeverBlocks ==
  \A l \in Linters : pc[l] = "push" => HasRoom

\* C7, amended: a send on issues blocks only when the goroutines have
\* extracted more Issues in total (those sent and those about to be sent)
\* than the capacity of the channel.
C7_BlocksOnlyBeyondCap ==
  \A l \in Linters :
    (pc[l] = "push" /\ ~HasRoom) =>
      TotalPushed + Cardinality({u \in Linters : pc[u] = "push"}) > IssuesCap

\* C7 witness: the last Issue that fits is about to be sent, the run having
\* extracted exactly as many Issues as the channel holds, and is not blocked.
C7_Witness ==
  \E l \in Linters :
    /\ pc[l] = "push" /\ HasRoom
    /\ TotalPushed + Cardinality({u \in Linters : pc[u] = "push"}) = IssuesCap
    /\ \A u \in Linters \ {l} : pc[u] = "end"

\* C8: a goroutine whose command could not be run sends no Issue, gives
\* its gate slot back and finishes; main still ends with every kept Issue
\* of the other linters printed.
C8_SoftFailure ==
  /\ \A l \in Linters :
       err[l] = "other" =>
         (pushed[l] = <<>> /\ pc[l] \in {"recv", "done", "end"})
  /\ mainpc = "end" =>
       /\ AllFinished
       /\ \A l \in Linters : \A k \in 1..Len(pushed[l]) :
            ~Excluded(excludeFlag, pushed[l][k]) =>
              \E n \in 1..Len(printed) : printed[n] = pushed[l][k]

\* C8 witness: main has ended, one command could not be run and the Issues
\* of another linter are printed.
C8_Witness ==
  /\ mainpc = "end"
  /\ \E l \in Linters : err[l] = "other" /\ pc[l] = "end"
  /\ \E u \in Linters : pushed[u] # <<>>
  /\ printed # <<>>

\* C9: a goroutine whose command returned (with status 0 or with a
\* non-zero status) has sent, when it leaves executeLinter, exactly the
\* Issues of the matching lines of the output: the status plays no part.
C9_ExitStatusIgnored ==
  \A l \in Linters :
    (pc[l] \in {"recv", "done", "end"} /\ err[l] \in {"nil", "ExitError"}) =>
      pushed[l] = Extracted(l)

\* C9 witness: a command returned a non-zero status and its two Issues were sent.
C9_Witness ==
  \E l \in Linters :
    pc[l] = "end" /\ err[l] = "ExitError" /\ Len(pushed[l]) = 2

\* a goroutine has hit a fatal error
Fatal == \E l \in Linters : pc[l] = "fatal"

\* C10: once a goroutine has hit a fatal error nothing takes a step any
\* more; issues is never closed nor drained and no line is printed.
C10_FatalStops ==
  /\ [](Fatal => (printed = <<>> /\ ~closed /\ mainpc \notin {"close", "drain", "end"}))
  /\ [][~Fatal]_vars

\* C10 witness: a fatal error while another goroutine is in its loop with
\* an Issue to send, a third waits at the gate and the channel holds Issues.
C10_Witness ==
  /\ Fatal
  /\ \E l \in Linters : pc[l] = "push"
  /\ \E l \in Linters : pc[l] = "send"
  /\ issues # <<>>

\* a send on issues is blocked: the channel is full, and stays full, since
\* main receives only after every goroutine has finished
PushBlocked == \E u \in Linters : pc[u] = "push" /\ ~closed /\ ~HasRoom

\* No step of Progress is possible (the negation of the guards of its
\* actions): the process has exited, or main has returned or waits in
\* wg.Wait(), and every goroutine has returned, waits for a command that
\* hangs, or is blocked on a full channel.  A run in which every
\* goroutine that can take a step does so ends in such a state.
Stopped ==
  \/ exited
  \/ /\ mainpc = "end" \/ (mainpc = "range" /\ ranged = DOMAIN lintersFlag /\ ~WaitOver)
     /\ \A l \in Linters :
          \/ pc[l] \in {"idle", "hung", "end"}
          \/ pc[l] = "send" /\ ~GateFree
          \/ pc[l] = "push" /\ ~closed /\ ~HasRoom

\* the linters whose command never exits
Hung == {l \in Linters : pc[l] = "hung"}

\* C6: a command that never exits blocks only its own goroutine: every
\* other linter's goroutine is eventually admitted, runs its command, sends
\* its Issues and returns (unless a fatal error ends the process or a send
\* on the full channel issues blocks), for any *concurrencyFlag >= 1.
C6_OthersProceed ==
  Stopped => \A l \in Linters : Finished(l) \/ l \in Hung \/ exited \/ PushBlocked

\* C6, amended: the same as long as fewer than *concurrencyFlag commands
\* hang; a hung command keeps its slot of the gate.
C6_OthersProceedBelowCeiling ==
  (Stopped /\ Cardinality(Hung) < concurrencyFlag) =>
    \A l \in Linters : Finished(l) \/ l \in Hung \/ exited \/ PushBlocked

\* C6 witness: the run has stopped with one command hung; the gate has a
\* second slot, and another goroutine has sent its Issues and returned.
C6_Witness ==
  /\ Stopped
  /\ Cardinality(Hung) = 1
  /\ concurrencyFlag = 2
  /\ \E l \in Linters : pc[l] = "end" /\ pushed[l] # <<>>

\* every Issue sent so far
AllPushed == pushed["errcheck"] \o pushed["golint"] \o pushed["vet"]

\* number of occurrences of v in the sequence ms
Count(ms, v) == Cardinality({k \in 1..Len(ms) : ms[k] = v})

\* C11: when main has ended the channel is empty, every Issue sent whose
\* rendered line the filter matches is printed no time, every other Issue
\* sent is printed as many times as it was sent, and nothing else is printed.
C11_Exclusion ==
  mainpc = "end" =>
    /\ issues = <<>>
    /\ \A k \in 1..Len(AllPushed) :
         Count(printed, AllPushed[k]) =
           IF excludeFlag # "" /\ Contains(String(AllPushed[k]), ExcludeText(excludeFlag))
           THEN 0 ELSE Count(AllPushed, AllPushed[k])
    /\ \A k \in 1..Len(printed) : Count(AllPushed, printed[k]) > 0

\* C11 witness: main has ended with a filter, having printed some of the
\* Issues sent and dropped others.
C11_Witness ==
  /\ mainpc = "end"
  /\ excludeFlag = "warning"
  /\ printed # <<>>
  /\ Len(printed) < Len(AllPushed)

\* number of matches FindAllSubmatch finds in the lines of an output
RECURSIVE Matches(_)
Matches(gs) ==
  IF gs = <<>> THEN 0 ELSE Len(Head(gs)) + Matches(Tail(gs))

\* C12: a goroutine whose command returned has sent, when it leaves
\* executeLinter, one Issue for every match of its pattern in every line
\* of the output: n Issues for a line with n matches, none for a line
\* without a match.
C12_OnePerMatch ==
  \A l \in Linters :
    (pc[l] \in {"recv", "done", "end"} /\ err[l] \in {"nil", "ExitError"}) =>
      Len(pushed[l]) = Matches(Groups[Resolve(lintersFlag[l]), out[l]])

\* C13: every Issue sent carries a severity of the set {warning, error}:
\* the severity linterSeverityFlag gives for the linter, error when it
\* gives none, whatever --severity has put in the map.
C13_ClosedSeverity ==
  \A l \in Linters : \A k \in 1..Len(pushed[l]) :
    /\ pushed[l][k].severity \in {"warning", "error"}
    /\ pushed[l][k].severity =
         IF l \in DOMAIN linterSeverityFlag THEN linterSeverityFlag[l] ELSE "error"

\* the pattern has a named group that is none of path, line, col, message
UnknownGroup(pattern) ==
  \E i \in 1..Len(SubexpNames(pattern)) :
    SubexpNames(pattern)[i] \notin {"", "path", "line", "col", "message"}

\* C14: the goroutine of a linter whose pattern has a named group other
\* than path, line, col and message never gets through executeLinter: the
\* fatal error comes whatever the command wrote, also when no line matches.
C14_UnknownGroupFatal ==
  \A l \in Linters :
    (pc[l] \in {"recv", "done", "end"} /\ err[l] \in {"nil", "ExitError"}) =>
      ~UnknownGroup(Resolve(lintersFlag[l]))

C16_InvalidExcludeAtStartup ==
  excludeFlag = BadPattern =>
    /\ mainpc \in {"parse", "panic"}
    /\ mainpc = "panic" => exited
    /\ ranged = {} /\ wg = 0 /\ concurrency = 0
    /\ \A l \in Linters : pc[l] = "idle" /\ pushed[l] = <<>>
    /\ issues = <<>> /\ printed = <<>>

\* C16 witness: the panic of regexp.MustCompile has ended a run that had
\* linters to start.
C16_Witness ==
  /\ excludeFlag = BadPattern
  /\ mainpc = "panic"
  /\ exited
  /\ disableLintersFlag = {}

\* a is before b in the lexicographic order on (path, line, col)
Lexicographic(a, b) ==
  \/ StrLess(a.path, b.path)
  \/ a.path = b.path /\ a.line < b.line
  \/ a.path = b.path /\ a.line = b.line /\ a.col < b.col

\* C17: Less(i, j) is true exactly when m[i] is before m[j] in the
\* lexicographic order on (path, line, col); it is never true both of
\* (i, j) and (j, i), and true of (i, k) when true of (i, j) and (j, k).
C17_LessLexicographic ==
  lessCall.called =>
    /\ \A i, j \in 1..3 :
         lessCall.less[i, j] = Lexicographic(lessCall.m[i], lessCall.m[j])
    /\ \A i, j \in 1..3 : ~(lessCall.less[i, j] /\ lessCall.less[j, i])
    /\ \A i, j, k \in 1..3 :
         (lessCall.less[i, j] /\ lessCall.less[j, k]) => lessCall.less[i, k]

\* the run is over: every goroutine has returned, issues is closed and
\* drained, main has returned
Ended == mainpc = "end" /\ AllFinished /\ closed /\ issues = <<>>

\* C18: a run in which no command hangs and no fatal error occurs does not
\* stop before it is over, whatever the number of Issues: when no step is
\* possible any more, every goroutine has been admitted and has returned,
\* issues is closed and drained and main has returned.
C18_Terminates ==
  (Stopped /\ ~exited /\ Hung = {}) => Ended

\* C18, amended: the same for the runs whose goroutines extract no more
\* Issues (those sent and those about to be sent) than issues holds; beyond
\* that the senders block on the full channel while main is in wg.Wait().
C18_TerminatesWithinCap ==
  (/\ Stopped /\ ~exited /\ Hung = {}
   /\ TotalPushed + Cardinality({u \in Linters : pc[u] = "push"}) <= IssuesCap)
    => Ended

\* C18 witness: a run with one slot at the gate is over, three goroutines
\* having been admitted in turn and having filled issues to its capacity.
C18_Witness ==
  /\ Ended
  /\ concurrencyFlag = 1
  /\ TotalPushed = IssuesCap
  /\ \A l \in Linters : pc[l] = "end"
  /\ Cardinality({l \in Linters : pushed[l] # <<>>}) >= 2

\* s is the beginning of t
IsPrefix(s, t) == Len(s) <= Len(t) /\ s = Sub(t, 1, Len(s))

\* s is a merge of a, b and c: it holds their elements, those of each in
\* the order they have there
RECURSIVE Interleaved(_, _, _, _)
Interleaved(s, a, b, c) ==
  IF s = <<>> THEN a = <<>> /\ b = <<>> /\ c = <<>>
  ELSE \/ a # <<>> /\ Head(a) = Head(s) /\ Interleaved(Tail(s), Tail(a), b, c)
       \/ b # <<>> /\ Head(b) = Head(s) /\ Interleaved(Tail(s), a, Tail(b), c)
       \/ c # <<>> /\ Head(c) = Head(s) /\ Interleaved(Tail(s), a, b, Tail(c))

\* C19: the Issues a goroutine has sent are, in order, those of the first
\* matching lines of its command's output; and the Issues main has printed,
\* followed by those of the channel that it will print, hold the Issues of
\* each linter in the order they were sent, whatever is sent between them.
C19_ToolOrder ==
  /\ \A l \in Linters :
       Compiles(Resolve(lintersFlag[l])) => IsPrefix(pushed[l], Extracted(l))
  /\ Interleaved(printed \o Kept(issues), Kept(pushed["errcheck"]),
                 Kept(pushed["golint"]), Kept(pushed["vet"]))

\* C19 witness: main has printed the two Issues of one linter in the order
\* of its output, with the Issue of another linter between them.
C19_Witness ==
  /\ mainpc = "end"
  /\ \E l, u \in Linters :
       /\ l # u
       /\ Len(pushed[l]) = 2 /\ pushed[l][1] # pushed[l][2]
       /\ Len(pushed[u]) = 1
       /\ printed = <<pushed[l][1], pushed[u][1], pushed[l][2]>>

\* the linters --fast disables
FastDisabled == {"structcheck", "varcheck", "errcheck"}

\* C20: a linter that --disable names, or that --fast disables, never gets
\* a goroutine: it is never admitted by the gate, runs no command and sends
\* no Issue.  Every other linter gets its goroutine when the range visits
\* it, one each: the WaitGroup counts the goroutines that have not
\* returned, and the range has visited every linter when main goes on.
C20_DisabledNeverRun ==
  /\ \A l \in Linters :
       (l \in disableLintersFlag \/ (fastFlag /\ l \in FastDisabled)) =>
         (pc[l] = "idle" /\ pushed[l] = <<>>)
  /\ \A l \in Linters :
       (l \in ranged /\ l \notin disableLintersFlag) => pc[l] # "idle"
  /\ \A l \in Linters : l \notin ranged => pc[l] = "idle"
  /\ wg = Cardinality({l \in Linters : pc[l] \notin {"idle", "end"}})
  /\ mainpc \in {"close", "drain", "end"} => ranged = DOMAIN lintersFlag

\* C20 witness: a --fast run with golint disabled has ended: vet alone got
\* a goroutine, and its Issues are printed.
C20_Witness ==
  /\ mainpc = "end"
  /\ fastFlag
  /\ disableLintersFlag = {"golint"} \cup FastDisabled
  /\ pc = [l \in Linters |-> IF l = "vet" THEN "end" ELSE "idle"]
  /\ printed # <<>>
  /\ printed = pushed["vet"]

====
